---- MODULE Spec2Model ----
(***************************************************************************)
(* pino-hook-structured-logger: the logMethod hook that classifies the     *)
(* arguments of a log call, interpolates {name} placeholders and builds    *)
(* the record handed to pino's log method.                                 *)
(*                                                                         *)
(* Strings are sequences of one-character strings, so that the regular     *)
(* expression /{(\w+)}/g is modelled on characters.  JavaScript values are *)
(* records [t, v]: t is the runtime kind, v the payload.  Plain objects    *)
(* are functions from keys (strings) to values.                            *)
(***************************************************************************)
EXTENDS Integers, Sequences, FiniteSets, TLC

----------------------------------------------------------------------------
(* JavaScript values *)

Str(s)    == [t |-> "string", v |-> s]
Num(n)    == [t |-> "number", v |-> n]
Obj(m)    == [t |-> "object", v |-> m]
Arr(s)    == [t |-> "array", v |-> s]
Error(m)  == [t |-> "error", v |-> m]
Null      == [t |-> "null", v |-> 0]
Undefined == [t |-> "undefined", v |-> 0]

EmptyMap == [k \in {} |-> Undefined]

\* typeof x
typeof(x) ==
  CASE x.t = "string" -> "string"
    [] x.t = "number" -> "number"
    [] x.t = "undefined" -> "undefined"
    [] OTHER -> "object"

\* x instanceof Error
instanceofError(x) == x.t = "error"

\* JavaScript truthiness: if (x)
Truthy(x) ==
  CASE x.t = "string" -> x.v # <<>>
    [] x.t = "number" -> x.v # 0
    [] x.t = "null" -> FALSE
    [] x.t = "undefined" -> FALSE
    [] OTHER -> TRUE

\* the own enumerable properties copied by an object spread {...x}
\* (null, undefined and numbers spread to nothing)
Spread(x) ==
  CASE x.t = "object" -> x.v
    [] OTHER -> EmptyMap

\* a ?? b
Coalesce(a, b) == IF a.t \in {"null", "undefined"} THEN b ELSE a

\* { ...a, ...b } on maps: the later spread wins
Merge(a, b) ==
  [k \in DOMAIN a \cup DOMAIN b |-> IF k \in DOMAIN b THEN b[k] ELSE a[k]]

\* delete m[k]
Delete(m, k) == [j \in DOMAIN m \ {k} |-> m[j]]

\* m[k] = x
Put(m, k, x) == [j \in DOMAIN m \cup {k} |-> IF j = k THEN x ELSE m[j]]

\* m[k], undefined when k is no own property
Get(m, k) == IF k \in DOMAIN m THEN m[k] ELSE Undefined

----------------------------------------------------------------------------
(* Strings *)

DigitChar == <<"0", "1", "2", "3", "4", "5", "6", "7", "8", "9">>

\* the characters \w matches, among those the model uses
WordChars ==
  {"a", "b", "c", "d", "e", "g", "j", "l", "m", "n", "o", "p", "r", "s", "t",
   "u", "x", "E", "O", "_"} \cup {DigitChar[i] : i \in 1..10}

RECURSIVE Decimal(_)
Decimal(n) ==
  IF n < 10 THEN <<DigitChar[n + 1]>>
  ELSE Decimal(n \div 10) \o <<DigitChar[(n % 10) + 1]>>

\* String(x)
String(x) ==
  CASE x.t = "string" -> x.v
    [] x.t = "number" -> Decimal(x.v)
    [] x.t = "null" -> <<"n", "u", "l", "l">>
    [] x.t = "undefined" -> <<"u", "n", "d", "e", "f", "i", "n", "e", "d">>
    [] x.t = "error" -> <<"E", "r", "r", "o", "r", ":", " ">> \o x.v
    [] OTHER -> <<"[", "o", "b", "j", "e", "c", "t", " ", "O", "b", "j", "e", "c", "t", "]">>

\* the first index >= i of s that holds no word character (Len(s)+1 if none)
RECURSIVE WordEnd(_, _)
WordEnd(s, i) ==
  IF i <= Len(s) /\ s[i] \in WordChars THEN WordEnd(s, i + 1) ELSE i

\* /{(\w+)}/ anchored at index i: the index of the closing brace, or 0
PlaceholderAt(s, i) ==
  IF i <= Len(s) /\ s[i] = "{"
  THEN LET j == WordEnd(s, i + 1)
       IN  IF j > i + 1 /\ j <= Len(s) /\ s[j] = "}" THEN j ELSE 0
  ELSE 0

\* the replacer callback under its mutation "truthiness decides"
ReplacementTruthy(structured, key) ==
  IF key \in DOMAIN structured /\ Truthy(structured[key])
  THEN String(structured[key])
  ELSE <<"{">> \o key \o <<"}">>

\* the replacer callback under its mutation "an unknown name loses its braces"
ReplacementDropsBraces(structured, key) ==
  IF key \in DOMAIN structured
  THEN String(structured[key])
  ELSE key

\* the replacer callback: hasOwnProperty decides, not the value
Replacement(structured, key) ==
  IF key \in DOMAIN structured
  THEN String(structured[key])
  ELSE <<"{">> \o key \o <<"}">>

RECURSIVE ReplaceFrom(_, _, _)
ReplaceFrom(message, i, structured) ==
  IF i > Len(message) THEN <<>>
  ELSE LET j == PlaceholderAt(message, i)
       IN  IF j = 0
           THEN <<message[i]>> \o ReplaceFrom(message, i + 1, structured)
           ELSE LET key == SubSeq(message, i + 1, j - 1)
                IN  Replacement(structured, key)
                    \o ReplaceFrom(message, j + 1, structured)

formatMessage(message, structured) == ReplaceFrom(message, 1, structured)

RECURSIVE MatchesFrom(_, _)
MatchesFrom(s, i) ==
  IF i > Len(s) THEN <<>>
  ELSE LET j == PlaceholderAt(s, i)
       IN  IF j = 0 THEN MatchesFrom(s, i + 1)
           ELSE <<SubSeq(s, i + 1, j - 1)>> \o MatchesFrom(s, j + 1)

tryExtractRemainingPlaceholders(messageTemplate) == MatchesFrom(messageTemplate, 1)

----------------------------------------------------------------------------
(* Argument Classifier *)

\* returns the parsed object or error and the argument list after the shift
tryParseNextArgAsObject(args) ==
  IF Len(args) > 0 /\ typeof(args[1]) = "object"
  THEN LET obj == Head(args)
       IN  IF instanceofError(obj)
           THEN [structured |-> Obj(EmptyMap), error |-> obj, args |-> Tail(args)]
           ELSE [structured |-> obj, error |-> Undefined, args |-> Tail(args)]
  ELSE [structured |-> Obj(EmptyMap), error |-> Undefined, args |-> args]

\* the merge of the two parsed objects under its mutation "first object wins"
MergeObjectsFirstWins(obj1, obj2) ==
  Obj(Merge(Spread(Coalesce(obj2.structured, Obj(EmptyMap))),
            Spread(Coalesce(obj1.structured, Obj(EmptyMap)))))

\* the merge of the two parsed objects under its mutation "a second object
\* replaces the first instead of merging into it"
MergeObjectsSecondOnly(obj1, obj2) ==
  Coalesce(obj2.structured, Coalesce(obj1.structured, Obj(EmptyMap)))

\* { ...(obj1.structured ?? {}), ...(obj2.structured ?? {}) }
MergeObjects(obj1, obj2) ==
  Obj(Merge(Spread(Coalesce(obj1.structured, Obj(EmptyMap))),
            Spread(Coalesce(obj2.structured, Obj(EmptyMap)))))

\* args[i] of a JavaScript array (0-based), undefined past the end
At(args, i) == IF i + 1 <= Len(args) THEN args[i + 1] ELSE Undefined

\* extractStructuredData under its mutation "the error found last wins"
extractStructuredDataLastErrorWins(args) ==
  IF typeof(At(args, 0)) = "string"
  THEN LET next == tryParseNextArgAsObject(Tail(args))
       IN  [messageTemplate |-> Head(args).v,
            structured |-> next.structured,
            error |-> next.error,
            args |-> next.args]
  ELSE IF typeof(At(args, 0)) = "object" /\ typeof(At(args, 1)) = "string"
  THEN LET spliced == <<args[1]>> \o SubSeq(args, 3, Len(args))
           obj1 == tryParseNextArgAsObject(spliced)
           obj2 == tryParseNextArgAsObject(obj1.args)
       IN  [messageTemplate |-> args[2].v,
            structured |-> MergeObjects(obj1, obj2),
            error |-> Coalesce(obj2.error, Coalesce(obj1.error, Undefined)),
            args |-> obj2.args]
  ELSE [messageTemplate |-> <<>>, structured |-> Obj(EmptyMap),
        error |-> Undefined, args |-> args]

\* extractStructuredData under its mutation "the template is interpolated
\* with the data found beside it before it is returned"
extractStructuredDataInterpolates(args) ==
  IF typeof(At(args, 0)) = "string"
  THEN LET next == tryParseNextArgAsObject(Tail(args))
       IN  [messageTemplate |-> formatMessage(Head(args).v, Spread(next.structured)),
            structured |-> next.structured,
            error |-> next.error,
            args |-> next.args]
  ELSE IF typeof(At(args, 0)) = "object" /\ typeof(At(args, 1)) = "string"
  THEN LET spliced == <<args[1]>> \o SubSeq(args, 3, Len(args))
           obj1 == tryParseNextArgAsObject(spliced)
           obj2 == tryParseNextArgAsObject(obj1.args)
       IN  [messageTemplate |-> formatMessage(args[2].v, Spread(MergeObjects(obj1, obj2))),
            structured |-> MergeObjects(obj1, obj2),
            error |-> Coalesce(obj1.error, Coalesce(obj2.error, Undefined)),
            args |-> obj2.args]
  ELSE [messageTemplate |-> <<>>, structured |-> Obj(EmptyMap),
        error |-> Undefined, args |-> args]

extractStructuredData(args) ==
  IF typeof(At(args, 0)) = "string"
  THEN \* n.m and n.mo
       LET next == tryParseNextArgAsObject(Tail(args))
       IN  [messageTemplate |-> Head(args).v,
            structured |-> next.structured,
            error |-> next.error,
            args |-> next.args]
  ELSE IF typeof(At(args, 0)) = "object" /\ typeof(At(args, 1)) = "string"
  THEN \* n.om and n.em, n.omo and n.emo
       LET spliced == <<args[1]>> \o SubSeq(args, 3, Len(args))
           obj1 == tryParseNextArgAsObject(spliced)
           obj2 == tryParseNextArgAsObject(obj1.args)
       IN  [messageTemplate |-> args[2].v,
            structured |-> MergeObjects(obj1, obj2),
            error |-> Coalesce(obj1.error, Coalesce(obj2.error, Undefined)),
            args |-> obj2.args]
  ELSE \* "this should never happen"
       [messageTemplate |-> <<>>, structured |-> Obj(EmptyMap),
        error |-> Undefined, args |-> args]

----------------------------------------------------------------------------
(* Residual Argument Matcher *)

Min(a, b) == IF a < b THEN a ELSE b

\* the for loop under its mutation "the argument is taken from the back"
RECURSIVE MatchLoopPops(_, _, _, _)
MatchLoopPops(i, remainingPlaceholders, structured, args) ==
  IF i < Min(Len(remainingPlaceholders), Len(args))
  THEN MatchLoopPops(i + 1, remainingPlaceholders,
                     Put(structured, remainingPlaceholders[i + 1], args[Len(args)]),
                     SubSeq(args, 1, Len(args) - 1))
  ELSE [structured |-> structured, args |-> args]

\* the for loop of reformatMessageWithRemainingArgs from index i (0-based):
\* its bound is evaluated again before every iteration, on the shifted args
RECURSIVE MatchLoop(_, _, _, _)
MatchLoop(i, remainingPlaceholders, structured, args) ==
  IF i < Min(Len(remainingPlaceholders), Len(args))
  THEN MatchLoop(i + 1, remainingPlaceholders,
                 Put(structured, remainingPlaceholders[i + 1], Head(args)),
                 Tail(args))
  ELSE [structured |-> structured, args |-> args]

reformatMessageWithRemainingArgs(formattedMessage, structured, args) ==
  IF Len(args) = 0
  THEN [message |-> formattedMessage, structured |-> structured, args |-> args]
  ELSE LET remainingPlaceholders == tryExtractRemainingPlaceholders(formattedMessage)
           m == MatchLoop(0, remainingPlaceholders, structured, args)
       IN  [message |-> formatMessage(formattedMessage, m.structured),
            structured |-> m.structured,
            args |-> m.args]

----------------------------------------------------------------------------
(* Output Assembler *)

\* wrapError under its mutation "any truthy value under errorKey is moved"
wrapErrorAnyValue(structured, currentError, errorKey, unwrapErrors) ==
  IF Truthy(currentError)
  THEN [fields |-> [k \in {errorKey} |-> currentError], structured |-> structured]
  ELSE LET error == Get(structured, errorKey)
       IN  IF Truthy(error)
           THEN [fields |-> [k \in {errorKey} |-> error],
                 structured |-> Delete(structured, errorKey)]
           ELSE [fields |-> EmptyMap, structured |-> structured]

\* returns the fields to add to the record and the structured data after
\* the delete; opts.unwrapErrors is received and never read
wrapError(structured, currentError, errorKey, unwrapErrors) ==
  IF Truthy(currentError)
  THEN [fields |-> [k \in {errorKey} |-> currentError], structured |-> structured]
  ELSE LET error == Get(structured, errorKey)
       IN  IF Truthy(error) /\ instanceofError(error)
           THEN [fields |-> [k \in {errorKey} |-> error],
                 structured |-> Delete(structured, errorKey)]
           ELSE [fields |-> EmptyMap, structured |-> structured]

\* the for loop over opts.unwrapKeys under its mutation "the key is copied:
\* the delete is missing"
RECURSIVE UnwrapLoopCopies(_, _, _, _)
UnwrapLoopCopies(i, unwrapKeys, unwrapped, structured) ==
  IF i > Len(unwrapKeys)
  THEN [unwrapped |-> unwrapped, structured |-> structured]
  ELSE LET key == unwrapKeys[i]
           value == Get(structured, key)
       IN  IF value.t # "undefined"
           THEN UnwrapLoopCopies(i + 1, unwrapKeys, Put(unwrapped, key, value),
                                 structured)
           ELSE UnwrapLoopCopies(i + 1, unwrapKeys, unwrapped, structured)

\* the for loop over opts.unwrapKeys from index i (1-based)
RECURSIVE UnwrapLoop(_, _, _, _)
UnwrapLoop(i, unwrapKeys, unwrapped, structured) ==
  IF i > Len(unwrapKeys)
  THEN [unwrapped |-> unwrapped, structured |-> structured]
  ELSE LET key == unwrapKeys[i]
           value == Get(structured, key)
       IN  IF value.t # "undefined"
           THEN UnwrapLoop(i + 1, unwrapKeys, Put(unwrapped, key, value),
                           Delete(structured, key))
           ELSE UnwrapLoop(i + 1, unwrapKeys, unwrapped, structured)

\* wrapStructuredData under its mutation "the container is emitted even when
\* no key is in it"
wrapStructuredDataEmitsEmpty(structured, dataKey, unwrapKeys) ==
  LET u == UnwrapLoop(1, unwrapKeys, EmptyMap, structured)
  IN  [fields |-> Merge(u.unwrapped, [k \in {dataKey} |-> Obj(u.structured)]),
       structured |-> u.structured]

wrapStructuredData(structured, dataKey, unwrapKeys) ==
  IF Cardinality(DOMAIN structured) = 0
  THEN [fields |-> EmptyMap, structured |-> structured]
  ELSE LET u == UnwrapLoop(1, unwrapKeys, EmptyMap, structured)
       IN  IF Cardinality(DOMAIN u.structured) = 0
           THEN [fields |-> u.unwrapped, structured |-> u.structured]
           ELSE [fields |-> Merge(u.unwrapped,
                                  [k \in {dataKey} |-> Obj(u.structured)]),
                 structured |-> u.structured]

----------------------------------------------------------------------------
(* Keys and option defaults *)

KeyA == <<"a">>
KeyB == <<"b">>
KeyErr == <<"e", "r", "r">>

DefaultMessageTemplateKey == <<"m", "s", "g", "_", "t", "p", "l">>
DefaultDataKey == <<"d", "a", "t", "a">>
DefaultArgsKey == <<"a", "r", "g", "s">>
DefaultErrorKey == KeyErr

----------------------------------------------------------------------------
(* Error key lookup *)

\* the value of the logger's own symbol property described `key`
getPinoConfigValue(symbols, key) ==
  IF key \in DOMAIN symbols THEN symbols[key] ELSE Undefined

PinoErrorKeySymbol == <<"p", "i", "n", "o", ".", "e", "r", "r", "o", "r", "K", "e", "y">>

\* returns the error key and the logger's __cachedErrorKey afterwards
getErrorKey(symbols, cachedErrorKey) ==
  IF Truthy(cachedErrorKey)
  THEN [errorKey |-> cachedErrorKey.v, cached |-> cachedErrorKey]
  ELSE LET errorKey == Coalesce(getPinoConfigValue(symbols, PinoErrorKeySymbol),
                                Str(DefaultErrorKey))
       IN  [errorKey |-> errorKey.v, cached |-> errorKey]

----------------------------------------------------------------------------
(* The hook *)

\* the merge under its mutation "bindings win"
MergeBindingsFirst(bindings, structured) == Merge(Spread(structured), bindings)

\* { ...this.bindings(), ...structured }
MergeBindings(bindings, structured) == Merge(bindings, Spread(structured))

\* the args field under its mutation "the first leftover argument is lost"
ArgsFieldDropsFirst(argsKey, args) ==
  IF Len(args) > 1 THEN [k \in {argsKey} |-> Arr(Tail(args))] ELSE EmptyMap

\* ...(args.length > 0 ? { [argsKey]: args } : {})
ArgsField(argsKey, args) ==
  IF Len(args) > 0 THEN [k \in {argsKey} |-> Arr(args)] ELSE EmptyMap

\* wrapStructuredData of src/unnamed/part_004: after the loop the container
\* is emitted whatever is left in it
wrapStructuredDataPart004(structured, dataKey, unwrapKeys) ==
  IF Cardinality(DOMAIN structured) = 0
  THEN [fields |-> EmptyMap, structured |-> structured]
  ELSE LET u == UnwrapLoop(1, unwrapKeys, EmptyMap, structured)
       IN  [fields |-> Merge(u.unwrapped, [k \in {dataKey} |-> Obj(u.structured)]),
            structured |-> u.structured]

\* The whole of logMethod on a non-empty argument list: every local the
\* handler computes, the argument array as it leaves it, the caller's
\* arguments as it leaves them (every write goes to the copy made by the
\* spread of line 107), and the one call of the continuation.
RunLogMethod(a, bindings, o, symbols, cachedErrorKey) ==
  LET ex == extractStructuredData(a)
      structuredWithBindings == MergeBindings(bindings, ex.structured)
      firstPass == formatMessage(ex.messageTemplate, structuredWithBindings)
      re == reformatMessageWithRemainingArgs(firstPass, structuredWithBindings, ex.args)
      ek == getErrorKey(symbols, cachedErrorKey)
      we == wrapError(re.structured, ex.error, ek.errorKey, o.unwrapErrors)
      ws == wrapStructuredData(we.structured, o.dataKey, o.unwrapKeys)
      obj == Merge(Merge(Merge([k \in {o.messageTemplateKey} |-> Str(ex.messageTemplate)],
                               we.fields),
                         ws.fields),
                   ArgsField(o.argsKey, re.args))
  IN  [messageTemplate |-> ex.messageTemplate,
       structured |-> ex.structured,
       error |-> ex.error,
       residual |-> ex.args,
       dataAtFirstPass |-> structuredWithBindings,
       firstPass |-> firstPass,
       merged |-> re.structured,
       errorKey |-> ek.errorKey,
       cached |-> ek.cached,
       args |-> re.args,
       callerArgs |-> a,
       threw |-> FALSE,
       method |-> <<[obj |-> obj, msg |-> re.message, rest |-> re.args]>>]

----------------------------------------------------------------------------
(* The hook of src/index.ts: no bindings, no unwrapping, errorKey an option *)

\* Object.prototype.hasOwnProperty.call(structured, key) throws a TypeError
\* on null: formatMessageTemplate throws when it reaches a placeholder
formatMessageTemplateThrows(message, structured) ==
  structured.t \in {"null", "undefined"}
  /\ tryExtractRemainingPlaceholders(message) # <<>>

formatMessageTemplate(message, structured) ==
  formatMessage(message, Spread(structured))

\* same classification as extractStructuredData (lines 90-124)
tryExtractObjectAndMessageTemplate(a) == extractStructuredData(a)

\* the for loop of tryConvertRemainingArgumentsToStructuredData
tryConvertRemainingArgumentsToStructuredData(formattedMessage, structured, a) ==
  MatchLoop(0, tryExtractRemainingPlaceholders(formattedMessage), structured, a)

\* the caller's arguments as the call leaves them: in the string-first form
\* `structured` is the caller's own object (tryParseNextArgAsObject returns
\* it as it is) and the loop's assignments are written into it
CallerArgsIndex(a, structured) ==
  IF Len(a) >= 2 /\ a[1].t = "string" /\ a[2].t = "object"
  THEN [a EXCEPT ![2] = Obj(structured)]
  ELSE a

RunLogMethodIndex(a, o) ==
  LET ex == tryExtractObjectAndMessageTemplate(a)
  IN  IF formatMessageTemplateThrows(ex.messageTemplate, ex.structured)
      THEN [messageTemplate |-> ex.messageTemplate,
            structured |-> ex.structured,
            error |-> ex.error,
            residual |-> ex.args,
            dataAtFirstPass |-> EmptyMap,
            firstPass |-> <<>>,
            merged |-> EmptyMap,
            errorKey |-> o.errorKey,
            cached |-> Undefined,
            args |-> ex.args,
            callerArgs |-> a,
            threw |-> TRUE,
            method |-> <<>>]
      ELSE
      LET data == Spread(ex.structured)
          firstPass == formatMessageTemplate(ex.messageTemplate, ex.structured)
          conv == IF Len(ex.args) > 0
                  THEN tryConvertRemainingArgumentsToStructuredData(firstPass, data, ex.args)
                  ELSE [structured |-> data, args |-> ex.args]
          formattedMessage == IF Len(ex.args) > 0
                              THEN formatMessage(firstPass, conv.structured)
                              ELSE firstPass
          logObj ==
            Merge(Merge(Merge([k \in {o.messageTemplateKey} |-> Str(ex.messageTemplate)],
                              IF Truthy(ex.error)
                              THEN [k \in {o.errorKey} |-> ex.error]
                              ELSE EmptyMap),
                        ArgsField(o.argsKey, conv.args)),
                  IF Truthy(ex.structured) /\ Cardinality(DOMAIN conv.structured) > 0
                  THEN [k \in {o.dataKey} |-> Obj(conv.structured)]
                  ELSE EmptyMap)
      IN  [messageTemplate |-> ex.messageTemplate,
           structured |-> ex.structured,
           error |-> ex.error,
           residual |-> ex.args,
           dataAtFirstPass |-> data,
           firstPass |-> firstPass,
           merged |-> conv.structured,
           errorKey |-> o.errorKey,
           cached |-> Undefined,
           args |-> conv.args,
           callerArgs |-> CallerArgsIndex(a, conv.structured),
           threw |-> FALSE,
           method |-> <<[obj |-> logObj, msg |-> formattedMessage, rest |-> conv.args]>>]

----------------------------------------------------------------------------
(* Inputs *)

\* the longest run of further arguments after the first three
MaxTail == 2

TplAB == <<"{", "a", "}", " ", "{", "b", "}">>
TplB == <<"{", "b", "}">>
TplAA == <<"x", "{", "a", "}", "{", "a", "}">>
TplErr == <<"{", "e", "r", "r", "}", "{", "a", "}">>
Boom == <<"b", "o", "o", "m">>

ObjA == (KeyA :> Num(1)) @@ (KeyB :> Num(0))
ObjInject == (KeyA :> Str(TplB)) @@ (KeyErr :> Num(5))
ObjErr == (KeyB :> Str(<<>>)) @@ (KeyErr :> Error(Boom))

\* the values an argument at one of the first three positions may take
Values ==
  {Str(TplAB), Str(TplB), Str(TplAA), Str(TplErr),
   Num(7), Null, Error(<<"x">>),
   Obj(EmptyMap), Obj(ObjA), Obj(ObjInject), Obj(ObjErr)}

\* the values of the arguments after them
TailValues == {Num(7), Str(<<"x">>)}

RECURSIVE SeqsUpTo(_, _)
SeqsUpTo(S, n) ==
  IF n = 0 THEN {<<>>}
  ELSE LET shorter == SeqsUpTo(S, n - 1)
       IN  shorter \cup {Append(q, x) : q \in shorter, x \in S}

ArgLists ==
  {<<>>}
  \cup {<<x>> : x \in Values}
  \cup {<<x, y>> : x \in Values, y \in Values}
  \cup {<<x, y, z>> \o tail :
          x \in Values, y \in Values, z \in Values, tail \in SeqsUpTo(TailValues, MaxTail)}

BindingsPool == {EmptyMap, (KeyA :> Num(5))}

UnwrapKeysPool == {<<>>, <<KeyA>>, <<KeyErr, KeyB>>}

SymbolsPool == {EmptyMap, (PinoErrorKeySymbol :> Str(KeyB))}

OptsPool ==
  {[messageTemplateKey |-> DefaultMessageTemplateKey,
    dataKey |-> DefaultDataKey,
    argsKey |-> DefaultArgsKey,
    errorKey |-> DefaultErrorKey,
    unwrapErrors |-> ue,
    unwrapKeys |-> uk] : ue \in BOOLEAN, uk \in UnwrapKeysPool}

----------------------------------------------------------------------------
(* State *)

VARIABLES
  opts,            \* the options given to structuredLogger()
  bindings,        \* this.bindings() of the logger
  symbols,         \* the logger's own symbol properties
  cachedErrorKey,  \* the logger's __cachedErrorKey
  pc,              \* "ready" before the log call, "done" after the hook returned
  hook,            \* which logMethod ran: "part_002" or "index"
  passed,          \* the argument list the caller passed
  args,            \* the same array as the hook left it
  run,             \* the locals of the hook
  method,          \* the calls of the continuation, in order
  calls,           \* the number of log calls made so far
  logger,          \* the logger of the last call: "root" or "child"
  child,           \* the child logger: its bindings and its own __cachedErrorKey
  fmt,             \* formatMessage alone: a template, a data map, the passes made
  asm              \* the Output Assembler alone: its inputs and the fields it made

vars == <<opts, bindings, symbols, cachedErrorKey, pc, hook, passed, args, run, method,
          calls, logger, child, fmt, asm>>

Init ==
  /\ opts \in OptsPool
  /\ bindings \in BindingsPool
  /\ symbols \in SymbolsPool
  /\ cachedErrorKey = Undefined
  /\ pc = "ready"
  /\ hook = "none"
  /\ passed = <<>>
  /\ args = <<>>
  /\ run = <<>>
  /\ method = <<>>
  /\ calls = 0
  /\ logger = "root"
  /\ child = <<>>
  /\ fmt = <<>>
  /\ asm = <<>>

\* logMethod(args, method) of src/unnamed/part_002
LogMethod ==
  /\ pc = "ready"
  /\ \E a \in ArgLists :
       /\ passed' = a
       /\ IF Len(a) < 1
          THEN \* "We need at least one argument to process the log message."
               /\ args' = a
               /\ run' = <<>>
               /\ method' = <<>>
               /\ cachedErrorKey' = cachedErrorKey
          ELSE LET r == RunLogMethod(a, bindings, opts, symbols, cachedErrorKey)
               IN  /\ args' = r.args
                   /\ run' = r
                   /\ method' = r.method
                   /\ cachedErrorKey' = r.cached
  /\ pc' = "done"
  /\ hook' = "part_002"
  /\ calls' = calls + 1
  /\ UNCHANGED <<opts, bindings, symbols, logger, child, fmt, asm>>

\* logMethod(args, method) of src/index.ts, which reads neither the bindings
\* nor the unwrap options nor the logger's symbols
LogMethodIndex ==
  /\ pc = "ready"
  /\ \E a \in ArgLists :
       /\ passed' = a
       /\ IF Len(a) < 1
          THEN /\ args' = a
               /\ run' = <<>>
               /\ method' = <<>>
          ELSE LET r == RunLogMethodIndex(a, opts)
               IN  /\ args' = r.args
                   /\ run' = r
                   /\ method' = r.method
  /\ pc' = "done"
  /\ hook' = "index"
  /\ calls' = calls + 1
  /\ UNCHANGED <<opts, bindings, symbols, cachedErrorKey, logger, child, fmt, asm>>

Next == LogMethod \/ LogMethodIndex

Spec == Init /\ [][Next]_vars

----------------------------------------------------------------------------
(* formatMessage alone: one template, one data map, applied again and again
   to its own result *)

\* the number of times the formatter is applied
MaxPasses == 2

TplA == <<"{", "a", "}">>
TplNested == <<"{", "{", "a", "}", "}">>
TplHalf == <<"{", "a", "}", "}">>

FormatTemplates == {TplA, TplB, TplAB, TplAA, TplNested, TplHalf, <<"x">>}

FormatValues ==
  {Num(0), Str(<<>>), Str(<<"b">>), Str(TplA), Str(TplB), Str(<<"{", "b">>)}

FormatData ==
  UNION {[keys -> FormatValues] : keys \in SUBSET {KeyA, KeyB}}

\* the options when the caller gives none
DefaultOpts ==
  [messageTemplateKey |-> DefaultMessageTemplateKey,
   dataKey |-> DefaultDataKey,
   argsKey |-> DefaultArgsKey,
   errorKey |-> DefaultErrorKey,
   unwrapErrors |-> TRUE,
   unwrapKeys |-> <<>>]

\* no log call is made: the hook's variables stay as constructed
NoCall ==
  /\ bindings = EmptyMap
  /\ symbols = EmptyMap
  /\ cachedErrorKey = Undefined
  /\ pc = "ready"
  /\ hook = "none"
  /\ passed = <<>>
  /\ args = <<>>
  /\ run = <<>>
  /\ method = <<>>
  /\ calls = 0
  /\ logger = "root"
  /\ child = <<>>

hookVars == <<opts, bindings, symbols, cachedErrorKey, pc, hook, passed, args, run,
              method, calls, logger, child>>

InitFormat ==
  /\ NoCall
  /\ opts = DefaultOpts
  /\ asm = <<>>
  /\ fmt \in {[template |-> t, data |-> d, passes |-> <<>>] :
                t \in FormatTemplates, d \in FormatData}

\* formatMessage(message, structured) on the template, then on its own result
FormatMessage ==
  /\ Len(fmt.passes) < MaxPasses
  /\ LET message == IF fmt.passes = <<>> THEN fmt.template
                    ELSE fmt.passes[Len(fmt.passes)]
     IN  fmt' = [fmt EXCEPT !.passes = Append(@, formatMessage(message, fmt.data))]
  /\ UNCHANGED <<hookVars, asm>>

NextFormat == FormatMessage

SpecFormat == InitFormat /\ [][NextFormat]_vars

----------------------------------------------------------------------------
(* The Output Assembler alone: wrapError and then wrapStructuredData on one
   structured-data object, as the record literal of logMethod spreads them *)

AsmKeys == {KeyA, KeyB, KeyErr}

\* the values of a data key; undefined is the value of { a: undefined }
AsmValues == {Num(5), Str(<<>>), Error(Boom), Undefined}

AsmData == UNION {[keys -> AsmValues] : keys \in SUBSET AsmKeys}

AsmErrors == {Undefined, Error(<<"x">>)}

AsmErrorKeys == {KeyErr, KeyB}

AsmUnwrapKeys == UnwrapKeysPool \cup {<<KeyA, KeyB, KeyErr>>}

InitAssembler ==
  /\ NoCall
  /\ opts \in {[DefaultOpts EXCEPT !.unwrapKeys = uk] : uk \in AsmUnwrapKeys}
  /\ fmt = <<>>
  /\ asm \in {[structured |-> d, currentError |-> e, errorKey |-> k,
               version |-> "none", afterError |-> d, fields |-> EmptyMap,
               left |-> d] :
                d \in AsmData, e \in AsmErrors, k \in AsmErrorKeys}

\* ...wrapError(...), ...wrapStructuredData(...) of src/unnamed/part_002
AssemblePart002 ==
  /\ asm.version = "none"
  /\ LET we == wrapError(asm.structured, asm.currentError, asm.errorKey,
                         opts.unwrapErrors)
         ws == wrapStructuredData(we.structured, opts.dataKey, opts.unwrapKeys)
     IN  asm' = [asm EXCEPT !.version = "part_002",
                            !.afterError = we.structured,
                            !.fields = Merge(we.fields, ws.fields),
                            !.left = ws.structured]
  /\ UNCHANGED <<hookVars, fmt>>

\* the same two spreads of src/unnamed/part_004
AssemblePart004 ==
  /\ asm.version = "none"
  /\ LET we == wrapError(asm.structured, asm.currentError, asm.errorKey,
                         opts.unwrapErrors)
         ws == wrapStructuredDataPart004(we.structured, opts.dataKey, opts.unwrapKeys)
     IN  asm' = [asm EXCEPT !.version = "part_004",
                            !.afterError = we.structured,
                            !.fields = Merge(we.fields, ws.fields),
                            !.left = ws.structured]
  /\ UNCHANGED <<hookVars, fmt>>

NextAssembler == AssemblePart002 \/ AssemblePart004

SpecAssembler == InitAssembler /\ [][NextAssembler]_vars

----------------------------------------------------------------------------
(* Several log calls, on a logger and on a child of it.  The child is the
   host's logger.child(bindings): an object whose prototype is the parent, so
   a property it does not own is read from the parent, and its own symbol
   properties do not include the parent's pino.errorKey. *)

\* the number of log calls in one behaviour
MaxCalls == 3

CallArgLists ==
  {<<Str(TplB), Obj(ObjErr)>>,
   <<Str(TplErr), Num(7)>>,
   <<Str(TplAB), Obj(ObjA), Num(7)>>,
   <<Error(<<"x">>), Str(TplB), Obj(ObjInject)>>,
   <<Str(TplAA)>>}

\* Object.getOwnPropertySymbols(child): none is described 'pino.errorKey'
ChildOwnSymbols == EmptyMap

\* (child as any).__cachedErrorKey: the child's own property, or else the
\* parent's through the prototype chain
ChildSeesCachedErrorKey ==
  IF child.cachedErrorKey.t # "undefined" THEN child.cachedErrorKey ELSE cachedErrorKey

InitCalls ==
  /\ opts = DefaultOpts
  /\ bindings = EmptyMap
  /\ symbols \in SymbolsPool
  /\ cachedErrorKey = Undefined
  /\ pc = "ready"
  /\ hook = "none"
  /\ passed = <<>>
  /\ args = <<>>
  /\ run = <<>>
  /\ method = <<>>
  /\ calls = 0
  /\ logger = "root"
  /\ child \in {[bindings |-> b, cachedErrorKey |-> Undefined] : b \in BindingsPool}
  /\ fmt = <<>>
  /\ asm = <<>>

\* logMethod with `this` the logger itself
LogRoot ==
  /\ calls < MaxCalls
  /\ \E a \in CallArgLists :
       LET r == RunLogMethod(a, bindings, opts, symbols, cachedErrorKey)
       IN  /\ passed' = a
           /\ args' = r.args
           /\ run' = r
           /\ method' = r.method
           /\ cachedErrorKey' = r.cached
  /\ calls' = calls + 1
  /\ logger' = "root"
  /\ pc' = "done"
  /\ hook' = "part_002"
  /\ UNCHANGED <<opts, bindings, symbols, child, fmt, asm>>

\* logMethod with `this` the child: Object.defineProperty adds the child's
\* own __cachedErrorKey only when the read found none
LogChild ==
  /\ calls < MaxCalls
  /\ \E a \in CallArgLists :
       LET seen == ChildSeesCachedErrorKey
           r == RunLogMethod(a, child.bindings, opts, ChildOwnSymbols, seen)
       IN  /\ passed' = a
           /\ args' = r.args
           /\ run' = r
           /\ method' = r.method
           /\ child' = [child EXCEPT !.cachedErrorKey =
                                       IF Truthy(seen) THEN @ ELSE r.cached]
  /\ calls' = calls + 1
  /\ logger' = "child"
  /\ pc' = "done"
  /\ hook' = "part_002"
  /\ UNCHANGED <<opts, bindings, symbols, cachedErrorKey, fmt, asm>>

NextCalls == LogRoot \/ LogChild

SpecCalls == InitCalls /\ [][NextCalls]_vars

----------------------------------------------------------------------------
(* One log call over argument lists that can hold two different errors, null
   and plain objects at any position, with the default options *)

\* the longest argument list
MaxArgs == 4

ShapeValues ==
  {Str(TplAB), Str(TplAA), Num(7), Null, Error(<<"x">>), Error(Boom),
   Obj(ObjA), Obj(ObjInject)}

ShapeArgLists == SeqsUpTo(ShapeValues, MaxArgs) \ {<<>>}

InitShapes ==
  /\ opts = DefaultOpts
  /\ bindings \in BindingsPool
  /\ symbols = EmptyMap
  /\ cachedErrorKey = Undefined
  /\ pc = "ready"
  /\ hook = "none"
  /\ passed = <<>>
  /\ args = <<>>
  /\ run = <<>>
  /\ method = <<>>
  /\ calls = 0
  /\ logger = "root"
  /\ child = <<>>
  /\ fmt = <<>>
  /\ asm = <<>>

\* logMethod(args, method) of src/unnamed/part_002 on one of these lists
LogMethodShapes ==
  /\ pc = "ready"
  /\ \E a \in ShapeArgLists :
       LET r == RunLogMethod(a, bindings, opts, symbols, cachedErrorKey)
       IN  /\ passed' = a
           /\ args' = r.args
           /\ run' = r
           /\ method' = r.method
           /\ cachedErrorKey' = r.cached
  /\ pc' = "done"
  /\ hook' = "part_002"
  /\ calls' = calls + 1
  /\ UNCHANGED <<opts, bindings, symbols, logger, child, fmt, asm>>

\* logMethod(args, method) of src/index.ts on one of these lists
LogMethodIndexShapes ==
  /\ pc = "ready"
  /\ \E a \in ShapeArgLists :
       LET r == RunLogMethodIndex(a, opts)
       IN  /\ passed' = a
           /\ args' = r.args
           /\ run' = r
           /\ method' = r.method
  /\ pc' = "done"
  /\ hook' = "index"
  /\ calls' = calls + 1
  /\ UNCHANGED <<opts, bindings, symbols, cachedErrorKey, logger, child, fmt, asm>>

NextShapes == LogMethodShapes \/ LogMethodIndexShapes

SpecShapes == InitShapes /\ [][NextShapes]_vars

----------------------------------------------------------------------------
(* Vocabulary of the properties *)

\* the hook returned normally from a non-empty argument list
Ran == pc = "done" /\ Len(passed) >= 1 /\ ~run.threw

Range(q) == {q[i] : i \in 1..Len(q)}

\* s[i..j] is one occurrence of {name}: braces around one or more word characters
IsOccurrence(s, i, j) ==
  /\ 1 <= i /\ i + 1 < j /\ j <= Len(s)
  /\ s[i] = "{" /\ s[j] = "}"
  /\ \A k \in (i + 1)..(j - 1) : s[k] \in WordChars

Occurrences(s) ==
  {o \in (1..Len(s)) \X (1..Len(s)) : IsOccurrence(s, o[1], o[2])}

\* what formatting is to produce: the text between the occurrences kept, each
\* occurrence replaced when its name is a key of data and kept otherwise
RECURSIVE ExpectedFrom(_, _, _)
ExpectedFrom(s, pos, data) ==
  LET later == {o \in Occurrences(s) : o[1] >= pos}
  IN  IF later = {} THEN SubSeq(s, pos, Len(s))
      ELSE LET o == CHOOSE x \in later : \A y \in later : x[1] <= y[1]
               name == SubSeq(s, o[1] + 1, o[2] - 1)
           IN  SubSeq(s, pos, o[1] - 1)
               \o (IF name \in DOMAIN data THEN String(data[name])
                   ELSE SubSeq(s, o[1], o[2]))
               \o ExpectedFrom(s, o[2] + 1, data)

ExpectedFormat(s, data) == ExpectedFrom(s, 1, data)

\* the placeholder names of s in order of occurrence
RECURSIVE NamesFrom(_, _)
NamesFrom(s, pos) ==
  LET later == {o \in Occurrences(s) : o[1] >= pos}
  IN  IF later = {} THEN <<>>
      ELSE LET o == CHOOSE x \in later : \A y \in later : x[1] <= y[1]
           IN  <<SubSeq(s, o[1] + 1, o[2] - 1)>> \o NamesFrom(s, o[2] + 1)

Names(s) == NamesFrom(s, 1)

Distinct(q) == \A i, j \in 1..Len(q) : q[i] = q[j] => i = j

\* the record and the message handed to the continuation
Record == method[1].obj
Message == method[1].msg

\* the emitted data container, empty when the record has none
Container ==
  IF opts.dataKey \in DOMAIN Record THEN Record[opts.dataKey].v ELSE EmptyMap

\* the value the record emits for data key k: inside the container, or at
\* top level when the key was moved there
Emitted(k) ==
  IF k \in DOMAIN Container THEN Container[k]
  ELSE IF k \in DOMAIN Record THEN Record[k]
  ELSE Undefined

\* the number of residual arguments the Matcher removed
Removed == Len(run.residual) - Len(args)

\* the unresolved placeholders of the message after the first pass
Unresolved == Names(run.firstPass)

\* the hook the state ran, applied to another argument list
SameHookOn(a) ==
  IF hook = "part_002"
  THEN RunLogMethod(a, bindings, opts, symbols, Undefined)
  ELSE RunLogMethodIndex(a, opts)

DataOf(obj) == IF opts.dataKey \in DOMAIN obj THEN obj[opts.dataKey] ELSE Undefined

----------------------------------------------------------------------------
(* Properties *)

\* C1: a positional call (template, v1, ..., vn) on a template with the n
\* distinct placeholders p1..pn, none of them a binding, yields the same
\* message and the same data as the named call (template, {p1: v1, ..., pn: vn}).
\* Stated for string and number values only, where no value can be taken for
\* the dedicated data object or for an error.
C1_PositionalEqualsNamed ==
  (/\ Ran
   /\ passed[1].t = "string"
   /\ \A i \in 2..Len(passed) : passed[i].t \in {"string", "number"}
   /\ Len(Names(passed[1].v)) >= 1
   /\ Distinct(Names(passed[1].v))
   /\ Len(passed) - 1 = Len(Names(passed[1].v))
   /\ Range(Names(passed[1].v)) \cap DOMAIN bindings = {})
  => LET names == Names(passed[1].v)
         named == [k \in Range(names) |->
                     passed[1 + (CHOOSE i \in 1..Len(names) : names[i] = k)]]
         other == SameHookOn(<<passed[1], Obj(named)>>)
     IN  /\ Message = other.method[1].msg
         /\ DataOf(Record) = DataOf(other.method[1].obj)

\* C2: with P unresolved placeholders after the first pass and R residual
\* arguments, exactly min(P, R) pairs are made: the i-th name holds the i-th
\* residual argument and those arguments leave the residual list.
C2_MinPairs ==
  Ran =>
    LET n == Min(Len(Unresolved), Len(run.residual))
    IN  /\ args = SubSeq(run.residual, n + 1, Len(run.residual))
        /\ \A i \in 1..n :
              /\ Unresolved[i] \in DOMAIN run.merged
              /\ run.merged[Unresolved[i]] = run.residual[i]

\* C3: every invocation of the hook calls the continuation exactly once,
\* the empty argument list included.
C3_ExactlyOnce == pc = "done" => Len(method) = 1

\* C4: in a call (contextObject, template, dataObject) of two plain objects
\* the value of a shared key comes from dataObject, in the message and in the
\* emitted data, and the keys of either object are all emitted.
C4_DedicatedObjectWins ==
  (/\ pc = "done"
   /\ Len(passed) = 3
   /\ passed[1].t = "object" /\ passed[2].t = "string" /\ passed[3].t = "object")
  => LET c == passed[1].v
         d == passed[3].v
         b == IF hook = "part_002" THEN bindings ELSE EmptyMap
         expected == [k \in DOMAIN b \cup DOMAIN c \cup DOMAIN d |->
                        IF k \in DOMAIN d THEN d[k]
                        ELSE IF k \in DOMAIN c THEN c[k] ELSE b[k]]
     IN  /\ Len(method) = 1
         /\ Message = ExpectedFormat(passed[2].v, expected)
         /\ \A k \in DOMAIN c \cup DOMAIN d : Emitted(k) = expected[k]

\* a context object and a data object share a key with different values,
\* and the template names that key
C4_Witness ==
  /\ pc = "done" /\ Len(passed) = 3 /\ Len(method) = 1
  /\ passed[1].t = "object" /\ passed[2].t = "string" /\ passed[3].t = "object"
  /\ \E k \in DOMAIN passed[1].v \cap DOMAIN passed[3].v :
        /\ passed[1].v[k] # passed[3].v[k]
        /\ k \in Range(Names(passed[2].v))
        /\ Emitted(k) = passed[3].v[k]
  /\ DOMAIN passed[1].v \ DOMAIN passed[3].v # {}
  /\ DOMAIN passed[3].v \ DOMAIN passed[1].v # {}

\* the names the Matcher paired, with the argument that stays under each
PairedNames == {Unresolved[i] : i \in 1..Removed}

\* C5: for a key of both the bindings and the call's structured data the merged
\* data holds the call-site value, in the formatting and in the record; a
\* binding value is used only for the keys the call does not supply.
C5_CallSiteOverridesBindings ==
  (Ran /\ hook = "part_002")
  => LET s == Spread(run.structured)
         expected == [k \in DOMAIN bindings \cup DOMAIN s |->
                        IF k \in DOMAIN s THEN s[k] ELSE bindings[k]]
     IN  /\ run.dataAtFirstPass = expected
         /\ run.firstPass = ExpectedFormat(run.messageTemplate, expected)
         /\ \A k \in DOMAIN bindings :
               k \in PairedNames \/ Emitted(k) = expected[k]

\* a binding and the call's data object disagree on a key the template names
C5_Witness ==
  /\ Ran /\ hook = "part_002"
  /\ \E k \in DOMAIN bindings \cap DOMAIN Spread(run.structured) :
        /\ bindings[k] # Spread(run.structured)[k]
        /\ k \in Range(Names(run.messageTemplate))
        /\ Emitted(k) = Spread(run.structured)[k]
        /\ Message # run.messageTemplate

\* C6: formatting replaces each {name} occurrence by the stringified value of
\* data[name] exactly when name is a key of data, falsy values included, and
\* keeps the occurrence verbatim otherwise; both passes of the hook do so.
C6_Formatter ==
  Ran =>
    /\ run.firstPass = ExpectedFormat(run.messageTemplate, run.dataAtFirstPass)
    /\ Message = IF Len(run.residual) = 0 THEN run.firstPass
                 ELSE ExpectedFormat(run.firstPass, run.merged)

\* one placeholder names a key with a falsy value and is replaced, another
\* names no key and stays
C6_Witness ==
  /\ Ran
  /\ \E k \in Range(Names(run.messageTemplate)) \cap DOMAIN run.dataAtFirstPass :
        /\ ~Truthy(run.dataAtFirstPass[k])
        /\ k \notin Range(Names(run.firstPass))
  /\ \E k \in Range(Names(run.messageTemplate)) :
        /\ k \notin DOMAIN run.dataAtFirstPass
        /\ k \in Range(Names(run.firstPass))

\* the keys the caller supplied: bindings, plain-object arguments, paired names
SuppliedKeys ==
  DOMAIN bindings
  \cup UNION {DOMAIN passed[i].v : i \in {j \in 1..Len(passed) : passed[j].t = "object"}}
  \cup PairedNames

\* C7: a positional error is the record's errorKey field under every
\* configuration (every unwrapKeys list) and data content; the container gets
\* no key for it, and a non-error value under errorKey keeps its value inside
\* the container.
C7_PositionalErrorPromoted ==
  (Ran /\ Truthy(run.error))
  => /\ run.errorKey \in DOMAIN Record
     /\ Record[run.errorKey] = run.error
     /\ DOMAIN Container \subseteq SuppliedKeys
     /\ (run.errorKey \in DOMAIN run.merged
           /\ ~instanceofError(run.merged[run.errorKey]))
        => (run.errorKey \in DOMAIN Container
              /\ Container[run.errorKey] = run.merged[run.errorKey])

\* C8: without a positional error and with unwrapErrors on, the value under
\* errorKey is moved to the top-level errorKey field iff it is an error; a
\* non-error value stays in the container and the record has no errorKey field.
C8_UnwrapIffError ==
  (/\ Ran /\ hook = "part_002"
   /\ ~Truthy(run.error)
   /\ opts.unwrapErrors
   /\ run.errorKey \in DOMAIN run.merged)
  => IF instanceofError(run.merged[run.errorKey])
     THEN /\ run.errorKey \in DOMAIN Record
          /\ Record[run.errorKey] = run.merged[run.errorKey]
          /\ run.errorKey \notin DOMAIN Container
     ELSE /\ run.errorKey \notin DOMAIN Record
          /\ run.errorKey \in DOMAIN Container
          /\ Container[run.errorKey] = run.merged[run.errorKey]

\* C8 as amended: the same, the non-error half for an errorKey that
\* unwrapKeys does not list; a listed errorKey is lifted like any listed key.
C8_UnwrapIffErrorUnlessLifted ==
  (/\ Ran /\ hook = "part_002"
   /\ ~Truthy(run.error)
   /\ opts.unwrapErrors
   /\ run.errorKey \in DOMAIN run.merged)
  => IF instanceofError(run.merged[run.errorKey])
     THEN /\ run.errorKey \in DOMAIN Record
          /\ Record[run.errorKey] = run.merged[run.errorKey]
          /\ run.errorKey \notin DOMAIN Container
     ELSE IF run.errorKey \in Range(opts.unwrapKeys)
          THEN /\ run.errorKey \notin DOMAIN Container
               /\ Record[run.errorKey] = run.merged[run.errorKey]
          ELSE /\ run.errorKey \notin DOMAIN Record
               /\ run.errorKey \in DOMAIN Container
               /\ Container[run.errorKey] = run.merged[run.errorKey]

\* an error under errorKey was moved out of a container that keeps other keys
C8_Witness ==
  /\ Ran /\ hook = "part_002"
  /\ ~Truthy(run.error)
  /\ opts.unwrapErrors
  /\ run.errorKey \in DOMAIN run.merged
  /\ instanceofError(run.merged[run.errorKey])
  /\ Record[run.errorKey] = run.merged[run.errorKey]
  /\ Container # EmptyMap
  /\ run.errorKey \notin DOMAIN Container

\* C9: with unwrapErrors off and no positional error, an error under errorKey
\* stays in the emitted container and the record has no top-level errorKey field.
C9_UnwrapErrorsGates ==
  (/\ Ran /\ hook = "part_002"
   /\ ~Truthy(run.error)
   /\ ~opts.unwrapErrors
   /\ run.errorKey \in DOMAIN run.merged
   /\ instanceofError(run.merged[run.errorKey]))
  => /\ run.errorKey \notin DOMAIN Record
     /\ run.errorKey \in DOMAIN Container
     /\ Container[run.errorKey] = run.merged[run.errorKey]

\* C10: the residual arguments the Matcher did not pair are, in their order,
\* the list under argsKey and the list appended after the message; the record
\* has no argsKey field when none remains.  The arguments that left the list
\* were paired: each is a front element whose placeholder holds it.
C10_ExcessArgumentsKept ==
  Ran =>
    /\ Len(method) = 1
    /\ Removed \in 0..Min(Len(Unresolved), Len(run.residual))
    /\ args = SubSeq(run.residual, Removed + 1, Len(run.residual))
    /\ \A i \in 1..Removed :
          (\A j \in (i + 1)..Removed : Unresolved[j] # Unresolved[i])
          => run.merged[Unresolved[i]] = run.residual[i]
    /\ method[1].rest = args
    /\ IF Len(args) > 0
       THEN opts.argsKey \in DOMAIN Record /\ Record[opts.argsKey] = Arr(args)
       ELSE opts.argsKey \notin DOMAIN Record

\* an argument was paired and another was left over and emitted
C10_Witness ==
  /\ Ran
  /\ Removed >= 1
  /\ Len(args) >= 1
  /\ Record[opts.argsKey] = Arr(args)
  /\ method[1].rest = args

\* a call with only a template, or with no arguments at all
TemplateOnly ==
  pc = "done" /\ (passed = <<>> \/ (Len(passed) = 1 /\ passed[1].t = "string"))

\* the bindings a template-only call leaves in the data container: those that
\* unwrapKeys does not move to the top level
BindingsKept == DOMAIN bindings \ Range(opts.unwrapKeys)

\* C11 (as stated): a call with only a template, or with no arguments, hands
\* the host no record with a data field or an args field, on every logger,
\* with or without bindings.
C11_NoDataNoArgs ==
  TemplateOnly =>
    \A i \in 1..Len(method) :
       /\ opts.dataKey \notin DOMAIN method[i].obj
       /\ opts.argsKey \notin DOMAIN method[i].obj

\* C11 (amended): such a call hands the host no record with an args field,
\* and none with a data field when the logger has no bindings; the hook that
\* reads the bindings emits under dataKey exactly the bindings that unwrapKeys
\* does not lift, and no data field only when none of them is left.
C11_NoArgsAndDataOnlyFromBindings ==
  TemplateOnly =>
    \A i \in 1..Len(method) :
       LET obj == method[i].obj
       IN  /\ opts.argsKey \notin DOMAIN obj
           /\ IF hook = "part_002" /\ BindingsKept # {}
              THEN /\ opts.dataKey \in DOMAIN obj
                   /\ obj[opts.dataKey] = Obj([k \in BindingsKept |-> bindings[k]])
              ELSE opts.dataKey \notin DOMAIN obj

\* a template with placeholders was logged alone on a logger without
\* bindings, and the record has neither field
C11_Witness ==
  /\ TemplateOnly
  /\ hook = "part_002"
  /\ bindings = EmptyMap
  /\ Len(method) = 1
  /\ Names(passed[1].v) # <<>>
  /\ opts.dataKey \notin DOMAIN Record
  /\ opts.argsKey \notin DOMAIN Record

\* no string template at argument position 0 or 1
NoShape ==
  /\ pc = "done"
  /\ Len(passed) >= 1
  /\ passed[1].t # "string"
  /\ At(passed, 1).t # "string"

\* the argument list of the continuation's call: the record, the message and
\* the arguments spread after them
Handed == <<Obj(method[1].obj), Str(method[1].msg)>> \o method[1].rest

\* C12: when neither of the first two arguments is a string the call is a
\* pass-through: the host is called once, with the argument list the caller
\* passed, no record of the core's making in front of it.
C12_NoShapePassThrough ==
  NoShape => Len(method) = 1 /\ Handed = passed

\* C13: the hook returns normally for every argument list and every
\* configuration: no call ends in an exception.
C13_NeverThrows ==
  (pc = "done" /\ Len(passed) >= 1) => ~run.threw

\* the call has one of the two shapes with a template: a string first, or an
\* object (an error, null) first and a string second
TemplateBearing ==
  /\ pc = "done"
  /\ Len(passed) >= 1
  /\ \/ passed[1].t = "string"
     \/ typeof(passed[1]) = "object" /\ At(passed, 1).t = "string"

\* the template as the caller passed it
Template == IF passed[1].t = "string" THEN passed[1].v ELSE passed[2].v

\* C16: the record of a template-bearing call holds under messageTemplateKey
\* the template string the caller passed, whatever the data, the bindings and
\* the residual arguments made of the message.
C16_TemplateFieldIsOriginal ==
  (TemplateBearing /\ Ran) =>
    /\ Len(method) = 1
    /\ opts.messageTemplateKey \in DOMAIN Record
    /\ Record[opts.messageTemplateKey] = Str(Template)

\* data, bindings and a paired residual argument all changed the message, and
\* the field still holds the template
C16_Witness ==
  /\ TemplateBearing
  /\ Ran
  /\ bindings # EmptyMap
  /\ Removed >= 1
  /\ run.firstPass # Template
  /\ Message # run.firstPass
  /\ Record[opts.messageTemplateKey] = Str(Template)

\* every placeholder name of the template is a key of the data map
Covered == Range(Names(fmt.template)) \subseteq DOMAIN fmt.data

\* C17 (as stated): when every placeholder name of T is a key of D,
\* formatting the result of format(T, D) again with D changes nothing.
C17_IdempotentOnceCovered ==
  (Len(fmt.passes) >= 2 /\ Covered) => fmt.passes[2] = fmt.passes[1]

\* C17 (amended): when every placeholder name of T is a key of D and no
\* placeholder of format(T, D) names a key of D, every further formatting
\* with D returns format(T, D).  A substituted value may bring a placeholder
\* with it, or complete one with the braces around it, so covering the names
\* of T alone does not make the second pass a no-op.
C17_IdempotentOnceResultCovered ==
  (Len(fmt.passes) >= 2 /\ Covered
   /\ Range(Names(fmt.passes[1])) \cap DOMAIN fmt.data = {})
  => \A i \in 2..Len(fmt.passes) : fmt.passes[i] = fmt.passes[1]

\* a covered template was formatted twice, the first pass replaced a
\* placeholder and left one of an unknown name in the result, and
\* the second pass left it as it was
C17_Witness ==
  /\ Len(fmt.passes) >= 2
  /\ Covered
  /\ Names(fmt.template) # <<>>
  /\ fmt.passes[1] # fmt.template
  /\ Names(fmt.passes[1]) # <<>>
  /\ Range(Names(fmt.passes[1])) \cap DOMAIN fmt.data = {}
  /\ fmt.passes[2] = fmt.passes[1]

\* the object-first form with two plain objects: (object, template, object)
ObjectTemplateObject ==
  /\ pc = "done"
  /\ Len(passed) >= 3
  /\ passed[1].t = "object" /\ passed[2].t = "string" /\ passed[3].t = "object"

\* C18 (as stated): in the form (object, template, object) the Classifier's
\* structured data has, for a key of both objects, the value of the first.
C18_FirstObjectWins ==
  ObjectTemplateObject =>
    \A k \in DOMAIN passed[1].v \cap DOMAIN passed[3].v :
       run.structured.v[k] = passed[1].v[k]

\* C18 (amended): in the form (object, template, object) the Classifier's
\* structured data has the keys of both objects; a key of both has the value
\* of the object after the template, a key of one has that object's value.
C18_LaterObjectWins ==
  ObjectTemplateObject =>
    LET c == passed[1].v
        d == passed[3].v
    IN  /\ run.structured.t = "object"
        /\ DOMAIN run.structured.v = DOMAIN c \cup DOMAIN d
        /\ \A k \in DOMAIN d : run.structured.v[k] = d[k]
        /\ \A k \in DOMAIN c \ DOMAIN d : run.structured.v[k] = c[k]

\* the two objects disagree on a key and each has a key of its own; the
\* Classifier returned the later value
C18_Witness ==
  /\ ObjectTemplateObject
  /\ \E k \in DOMAIN passed[1].v \cap DOMAIN passed[3].v :
        /\ passed[1].v[k] # passed[3].v[k]
        /\ run.structured.v[k] = passed[3].v[k]
  /\ \E k \in DOMAIN passed[1].v \ DOMAIN passed[3].v : k \in DOMAIN run.structured.v
  /\ \E k \in DOMAIN passed[3].v \ DOMAIN passed[1].v : k \in DOMAIN run.structured.v

\* the number of leading arguments the Classifier is to consume: the
\* template, the object before it if the call is object-first, and one
\* object (plain, error or null) directly after it
Consumed ==
  IF passed[1].t = "string"
  THEN 1 + (IF typeof(At(passed, 1)) = "object" THEN 1 ELSE 0)
  ELSE IF typeof(passed[1]) = "object" /\ At(passed, 1).t = "string"
  THEN 2 + (IF typeof(At(passed, 2)) = "object" THEN 1 ELSE 0)
  ELSE 0

\* C20: the residual list is the original argument list without its consumed
\* front, in the original order; the Matcher takes arguments off its front
\* only, and what it leaves is what follows the message in the host's call.
C20_ResidualIsSuffix ==
  (pc = "done" /\ Len(passed) >= 1) =>
    /\ run.residual = SubSeq(passed, Consumed + 1, Len(passed))
    /\ \E n \in 0..Len(run.residual) :
          args = SubSeq(run.residual, n + 1, Len(run.residual))
    /\ \A i \in 1..Len(method) : method[i].rest = args

\* an object-first call with an object on either side of the template and
\* further arguments after them, not all alike, of which the Matcher took
\* some and left some
C20_Witness ==
  /\ Ran
  /\ typeof(passed[1]) = "object" /\ At(passed, 1).t = "string"
  /\ Consumed = 3
  /\ Len(run.residual) >= 2
  /\ run.residual[1] # run.residual[Len(run.residual)]
  /\ Removed >= 1
  /\ Len(args) >= 1
  /\ args = SubSeq(passed, Consumed + Removed + 1, Len(passed))

\* the Assembler ran on the structured data of asm
Assembled == asm.version # "none"

\* the data container among the fields the Assembler made, empty when there
\* is none
AsmContainer ==
  IF opts.dataKey \in DOMAIN asm.fields THEN asm.fields[opts.dataKey].v ELSE EmptyMap

\* the keys of the structured data, as error unwrapping left it, that
\* unwrapKeys lists
Listed == DOMAIN asm.afterError \cap Range(opts.unwrapKeys)

\* C14 (as stated): every key of unwrapKeys present in the structured data is
\* a top-level field with the data's value and is not in the emitted
\* container; a key that unwrapKeys does not list stays in the container and
\* is no top-level field of the Assembler's, the error field apart.
C14_LiftingMoves ==
  Assembled =>
    /\ \A k \in Listed :
          /\ k \in DOMAIN asm.fields
          /\ asm.fields[k] = asm.afterError[k]
          /\ k \notin DOMAIN AsmContainer
    /\ \A k \in DOMAIN asm.afterError \ Listed :
          /\ k \in DOMAIN AsmContainer
          /\ AsmContainer[k] = asm.afterError[k]
          /\ k \in DOMAIN asm.fields => k = asm.errorKey

\* C14 (amended): every key of unwrapKeys present in the structured data with
\* a value other than undefined is a top-level field with the data's value
\* and is not in the emitted container; a listed key whose value is undefined
\* is not lifted and stays in the container, as does every key that
\* unwrapKeys does not list.
C14_LiftingMovesDefined ==
  Assembled =>
    LET lifted == {k \in Listed : asm.afterError[k].t # "undefined"}
    IN  /\ \A k \in lifted :
              /\ k \in DOMAIN asm.fields
              /\ asm.fields[k] = asm.afterError[k]
              /\ k \notin DOMAIN AsmContainer
        /\ \A k \in DOMAIN asm.afterError \ lifted :
              /\ k \in DOMAIN AsmContainer
              /\ AsmContainer[k] = asm.afterError[k]
              /\ k \in DOMAIN asm.fields => k = asm.errorKey

\* one key was lifted with its value and another, not listed, stayed in the
\* container
C14_Witness ==
  /\ Assembled
  /\ asm.version = "part_002"
  /\ \E k \in Listed :
        /\ asm.afterError[k].t # "undefined"
        /\ asm.fields[k] = asm.afterError[k]
        /\ k \notin DOMAIN AsmContainer
  /\ \E k \in DOMAIN asm.afterError \ Listed : k \in DOMAIN AsmContainer

\* C15: the fields of the Assembler include dataKey exactly when a key is
\* left in the structured data after error unwrapping and key lifting, and
\* the object under dataKey is never empty.
C15_ContainerIffKeysRemain ==
  Assembled =>
    LET remaining == {k \in DOMAIN asm.afterError :
                        k \in Listed => asm.afterError[k].t = "undefined"}
    IN  /\ opts.dataKey \in DOMAIN asm.fields <=> remaining # {}
        /\ opts.dataKey \in DOMAIN asm.fields
           => DOMAIN asm.fields[opts.dataKey].v # {}

\* the same statement of the Assembler of part_002 alone
C15_Part002 == asm.version = "part_002" => C15_ContainerIffKeysRemain

\* the last call, made on the same logger before any other call: the hook's
\* outcome with nothing cached anywhere
FirstCallOutcome ==
  IF logger = "root"
  THEN RunLogMethod(passed, bindings, opts, symbols, Undefined)
  ELSE RunLogMethod(passed, child.bindings, opts, ChildOwnSymbols, Undefined)

\* C19: whatever calls were made before on the logger and on its child, a
\* call hands the host the record and the message it would hand as the first
\* call, and the error-field name it uses is the one a fresh lookup on its
\* logger returns.
C19_CallsIndependent ==
  (pc = "done" /\ calls >= 1) =>
    /\ method = FirstCallOutcome.method
    /\ run.errorKey = FirstCallOutcome.errorKey

\* the Classifier found an error before the template and another directly
\* after it
TwoErrors ==
  /\ pc = "done"
  /\ Len(passed) >= 3
  /\ passed[1].t = "error" /\ passed[2].t = "string" /\ passed[3].t = "error"

\* C21: when an error stands before the template and an error directly after
\* it, the call's error is the one before the template, and it is the one
\* the record holds under the error key.
C21_FirstErrorWins ==
  TwoErrors =>
    /\ run.error = passed[1]
    /\ Ran => (run.errorKey \in DOMAIN Record /\ Record[run.errorKey] = passed[1])

\* two different errors were passed around the template and the first is the
\* call's error
C21_Witness ==
  /\ TwoErrors
  /\ Ran
  /\ passed[1] # passed[3]
  /\ run.error = passed[1]
  /\ Record[run.errorKey] = passed[1]

\* C22: the final message of a template-bearing call is one formatting pass
\* of the template the caller passed against the final merged data: text
\* that a pass inserted as a value is not read as a placeholder afterwards.
C22_SinglePass ==
  (TemplateBearing /\ Ran) => Message = ExpectedFormat(Template, run.merged)

\* C23: the Matcher only adds keys: the keys of the data after matching are
\* those before it and one new key for each residual argument removed, and
\* every value the data had before matching is still there.
C23_MatcherOnlyAdds ==
  Ran =>
    /\ DOMAIN run.dataAtFirstPass \subseteq DOMAIN run.merged
    /\ \A k \in DOMAIN run.dataAtFirstPass : run.merged[k] = run.dataAtFirstPass[k]
    /\ Cardinality(DOMAIN run.merged \ DOMAIN run.dataAtFirstPass) = Removed

\* the positions of the arguments the Classifier consumed beside the
\* template: the object before it and the one directly after it
ConsumedBeside ==
  IF passed[1].t = "string"
  THEN {i \in {2} : typeof(At(passed, 1)) = "object"}
  ELSE {1} \cup {i \in {3} : typeof(At(passed, 2)) = "object"}

\* a consumed argument has its place in the outcome: a plain object among
\* the keys of the structured data, an error as the call's error; null
\* carries nothing that could be lost
Placed(x) ==
  \/ x.t = "object" /\ DOMAIN x.v \subseteq DOMAIN run.structured.v
  \/ x.t = "error" /\ run.error = x
  \/ x.t = "null"

\* C24: in a template-bearing call every argument beside the template has
\* its place: a consumed object in the structured data, a consumed error as
\* the call's error, a residual argument the Matcher removed as the value of
\* the placeholder it was paired with, and the others, in order, in the
\* residual list that is left.
C24_ArgumentsConserved ==
  (TemplateBearing /\ Ran) =>
    /\ \A i \in ConsumedBeside : Placed(passed[i])
    /\ \A i \in 1..Removed :
          /\ Unresolved[i] \in DOMAIN run.merged
          /\ run.merged[Unresolved[i]] = run.residual[i]
    /\ args = SubSeq(run.residual, Removed + 1, Len(run.residual))

\* C25: after a call every argument the caller passed, each plain object
\* among them included, holds the keys and values it held before the call;
\* the bindings are written by no action.
C25_CallerObjectsUntouched ==
  (pc = "done" /\ Len(passed) >= 1) => run.callerArgs = passed

====
